---- MODULE Spec2Model ----
(***************************************************************************)
(* The data loaders of the two dashboards of this repository               *)
(*   Exercise 1/Streamlit App/app.py   (movie explorer, load_data)         *)
(*   Exercise 2/streamlit/app.py       (crime dashboard, load_data)        *)
(* and the script passes that call them, as one state machine.  A session  *)
(* runs one of the two apps; every user interaction reruns the script from *)
(* the top with the currently uploaded file.                               *)
(***************************************************************************)
EXTENDS Integers, Sequences, FiniteSets, TLC

VARIABLES app, pool, diskExists, uploaded, cache, df, pc, passes, calls

vars == <<app, pool, diskExists, uploaded, cache, df, pc, passes, calls>>

(***************************************************************************)
(* Bounds of the model.                                                    *)
(***************************************************************************)
MaxRows == 2
MaxPasses == 2

(***************************************************************************)
(* Values.  A cell of a data frame is a missing value, a number, a text, a *)
(* timestamp (minutes since 2024-01-01T00:00), and in the movie data a     *)
(* text held as its sequence of tokens or a list of cells.                 *)
(***************************************************************************)
NaN == [k |-> "nan"]
Num(n) == [k |-> "num", n |-> n]
Str(s) == [k |-> "str", s |-> s]
Ts(m) == [k |-> "ts", n |-> m]
Text(t) == [k |-> "text", t |-> t]
Field(t) == [k |-> "field", t |-> t]
List(l) == [k |-> "list", l |-> l]

None == [kind |-> "None"]
Unset == [kind |-> "unset"]
Raised(e) == [kind |-> "exc", k |-> "exc", type |-> e]
IsExc(d) == d.kind = "exc"
CellExc(c) == c.k = "exc"
IsFrame(d) == d.kind = "df"

\* f with column c set to the value w (added when f has no such column).
SetCol(f, c, w) == [x \in (DOMAIN f) \cup {c} |-> IF x = c THEN w ELSE f[x]]

\* A step applied to the frame so far; an exception raised earlier skips it.
Bind(d, Step(_)) == IF IsExc(d) THEN d ELSE Step(d)

(***************************************************************************)
(* Text to number, as the CSV reader and pd.to_numeric parse it, over the  *)
(* texts the model writes into number columns.                             *)
(***************************************************************************)
NumericText == {"0", "-1", "42", "-71", "5", "7", "14", "25", "1994", "2008"}
ParseNum(s) ==
    CASE s = "0" -> 0
      [] s = "-1" -> -1
      [] s = "42" -> 42
      [] s = "-71" -> -71
      [] s = "5" -> 5
      [] s = "7" -> 7
      [] s = "14" -> 14
      [] s = "25" -> 25
      [] s = "1994" -> 1994
      [] s = "2008" -> 2008

\* Text to timestamp, as parse_dates parses it: minutes since 2024-01-01T00:00.
DateText == {"2024-03-01T14:30:00", "2024-03-02T23:05:00"}
ParseDate(s) ==
    CASE s = "2024-03-01T14:30:00" -> (60 * 1440) + (14 * 60) + 30
      [] s = "2024-03-02T23:05:00" -> (61 * 1440) + (23 * 60) + 5

\* Mutant: the hours since the epoch, not the hour of the day.
HourOf_Total(t) == t.n \div 60

\* Series.dt.hour of one timestamp.
HourOf(t) == (t.n \div 60) % 24

(***************************************************************************)
(* Crime dashboard: load_data.                                             *)
(* A CSV file is [name, ok, cols, rows]: ok says the bytes are delimited   *)
(* text at all, cols is the header, rows are the records as texts ("" is   *)
(* an empty field).  A frame is [kind |-> "df", cols, cats, rows] with     *)
(* rows a sequence of [idx, v]: the index label and the cells by column.   *)
(***************************************************************************)
ColumnCells(file, c) == {file.rows[i][c] : i \in 1..Len(file.rows)}

\* The reader's type inference for one column: numbers when every non-empty
\* field parses as a number, texts otherwise; an empty field is missing.
InferCell(file, c, s) ==
    IF s = "" THEN NaN
    ELSE IF ColumnCells(file, c) \subseteq (NumericText \cup {""}) THEN Num(ParseNum(s))
    ELSE Str(s)

\* parse_dates: timestamps when every non-empty field parses as a date; the
\* column stays text otherwise.
DateCell(file, c, s) ==
    IF s = "" THEN NaN
    ELSE IF ColumnCells(file, c) \subseteq (DateText \cup {""}) THEN Ts(ParseDate(s))
    ELSE Str(s)

read_csv(file) ==
    IF ~file.ok THEN Raised("ParserError")
    ELSE IF "OCCURRED_ON_DATE" \notin file.cols THEN Raised("ValueError")
    ELSE [kind |-> "df",
          cols |-> file.cols,
          cats |-> <<>>,
          rows |-> [i \in 1..Len(file.rows) |->
                      [idx |-> i,
                       v |-> [c \in file.cols |->
                                IF c = "OCCURRED_ON_DATE"
                                THEN DateCell(file, c, file.rows[i][c])
                                ELSE InferCell(file, c, file.rows[i][c])]]]]

ColumnValues(d, c) == {d.rows[i].v[c] : i \in 1..Len(d.rows)}

categorical_cols == {"DISTRICT", "OFFENSE_CODE_GROUP", "UCR_PART", "DAY_OF_WEEK", "SHOOTING"}

\* astype("category"): the categories are the values present, missing excluded.
ToCategory(d) ==
    [d EXCEPT !.cats = [c \in (categorical_cols \cap d.cols) |-> ColumnValues(d, c) \ {NaN}]]

MapRows(d, F(_)) == [d EXCEPT !.rows = [i \in 1..Len(d.rows) |-> [d.rows[i] EXCEPT !.v = F(d.rows[i].v)]]]

FillShooting(v) == IF v["SHOOTING"] = NaN THEN SetCol(v, "SHOOTING", Str("N")) ELSE v
SynthShooting(v) == SetCol(v, "SHOOTING", Str("N"))

\* cat.add_categories raises ValueError when the category already exists.
NormalizeShooting(d) ==
    IF "SHOOTING" \in d.cols
    THEN IF Str("N") \in d.cats["SHOOTING"]
         THEN Raised("ValueError")
         ELSE [MapRows(d, FillShooting) EXCEPT !.cats = SetCol(d.cats, "SHOOTING", d.cats["SHOOTING"] \cup {Str("N")})]
    ELSE [MapRows(d, SynthShooting) EXCEPT !.cols = d.cols \cup {"SHOOTING"}]

\* Mutant: the indicator compares with "N".
IsShootingOf_Inverted(v) == SetCol(v, "Is_Shooting", Num(IF v["SHOOTING"] = Str("N") THEN 1 ELSE 0))
IsShootingOf(v) == SetCol(v, "Is_Shooting", Num(IF v["SHOOTING"] = Str("Y") THEN 1 ELSE 0))

DeriveIsShooting(d) ==
    [MapRows(d, IsShootingOf) EXCEPT !.cols = d.cols \cup {"Is_Shooting"}]

\* pd.to_numeric(errors="coerce").fillna(0).astype(int) of one cell.
CoerceHour(c) ==
    IF c.k = "num" THEN c
    ELSE IF c.k = "str" /\ c.s \in NumericText THEN Num(ParseNum(c.s))
    ELSE Num(0)

HourFromColumn(v) == SetCol(v, "HOUR", CoerceHour(v["HOUR"]))
HourFromDate(v) == SetCol(v, "HOUR", Num(HourOf(v["OCCURRED_ON_DATE"])))

\* .dt needs a timestamp column (AttributeError on a text column) and
\* astype(int) raises on the missing hour of a missing timestamp.
FixHour(d) ==
    IF "HOUR" \in d.cols THEN MapRows(d, HourFromColumn)
    ELSE IF \E c \in ColumnValues(d, "OCCURRED_ON_DATE") : c.k = "str" THEN Raised("AttributeError")
    ELSE IF NaN \in ColumnValues(d, "OCCURRED_ON_DATE") THEN Raised("ValueError")
    ELSE [MapRows(d, HourFromDate) EXCEPT !.cols = d.cols \cup {"HOUR"}]

\* Mutant: dropna(subset=["Lat"]).
HasCoordinates_LatOnly(r) == r.v["Lat"] # NaN
HasCoordinates(r) == r.v["Lat"] # NaN /\ r.v["Long"] # NaN

\* Mutant: only the sentinel -1 is filtered.
LatNotSentinel_MinusOneOnly(r) == r.v["Lat"] # Num(-1)
LatNotSentinel(r) == r.v["Lat"] # Num(-1) /\ r.v["Lat"] # Num(0)

\* Mutant: the retained rows are renumbered (reset_index(drop=True)).
CleanCoordinates_Reindexed(d) ==
    IF ~({"Lat", "Long"} \subseteq d.cols) THEN Raised("KeyError")
    ELSE [d EXCEPT !.rows =
            [k \in 1..Len(SelectSeq(SelectSeq(d.rows, HasCoordinates), LatNotSentinel)) |->
                [SelectSeq(SelectSeq(d.rows, HasCoordinates), LatNotSentinel)[k] EXCEPT !.idx = k]]]

\* dropna(subset=["Lat", "Long"]) raises KeyError on a missing column.
CleanCoordinates(d) ==
    IF ~({"Lat", "Long"} \subseteq d.cols) THEN Raised("KeyError")
    ELSE [d EXCEPT !.rows = SelectSeq(SelectSeq(d.rows, HasCoordinates), LatNotSentinel)]

UnknownDescription(v) == SetCol(v, "OFFENSE_DESCRIPTION", Str("Unknown"))

EnsureOffenseDescription(d) ==
    IF "OFFENSE_DESCRIPTION" \notin d.cols
    THEN [MapRows(d, UnknownDescription) EXCEPT !.cols = d.cols \cup {"OFFENSE_DESCRIPTION"}]
    ELSE d

\* The body of the try block.
crime_load_body(file) ==
    Bind(Bind(Bind(Bind(Bind(Bind(read_csv(file),
        ToCategory), NormalizeShooting), DeriveIsShooting), FixHour),
        CleanCoordinates), EnsureOffenseDescription)

\* Mutant: except ValueError instead of except Exception.
crime_load_data_ValueErrorOnly(file) ==
    IF IsExc(crime_load_body(file)) /\ crime_load_body(file).type = "ValueError"
    THEN None ELSE crime_load_body(file)

\* try: ... except Exception: return None
crime_load_data(file) ==
    IF IsExc(crime_load_body(file)) THEN None ELSE crime_load_body(file)

(***************************************************************************)
(* Movie explorer: load_data.                                              *)
(* A file is [name, ok, cols, rows] with name = [stem, ext].  The fields   *)
(* of a .csv file are texts, each Field(t) with t its sequence of tokens    *)
(* (<<>> is an empty field); the values of a JSON array of records are     *)
(* typed already.                                                          *)
(***************************************************************************)
Quoted == {"'A'", "'B'"}
Unquote(tok) == CASE tok = "'A'" -> "A" [] tok = "'B'" -> "B"
Names == {"Tom"}

\* The value of a one-token expression.
EvalAtom(tok) ==
    IF tok \in Quoted THEN Str(Unquote(tok))
    ELSE IF tok \in NumericText THEN Num(ParseNum(tok))
    ELSE IF tok \in Names THEN Raised("NameError")
    ELSE Raised("SyntaxError")

\* t is a list display: [ ] around atoms separated by commas (a trailing
\* comma is allowed).
IsListDisplay(t) ==
    /\ Len(t) >= 2
    /\ t[1] = "[" /\ t[Len(t)] = "]"
    /\ \A i \in 2..(Len(t) - 1) :
          IF i % 2 = 0 THEN t[i] \in (Quoted \cup NumericText \cup Names)
          ELSE t[i] = ","

ListItems(t) == [j \in 1..((Len(t) - 1) \div 2) |-> EvalAtom(t[2 * j])]

\* Python's eval of a text, over the expressions the model writes: list
\* displays of atoms, single atoms, and texts that are no expression.
Eval(t) ==
    IF IsListDisplay(t)
    THEN IF \E j \in 1..Len(ListItems(t)) : CellExc(ListItems(t)[j])
         THEN Raised("NameError")
         ELSE List(ListItems(t))
    ELSE IF Len(t) = 1 THEN EvalAtom(t[1])
    ELSE Raised("SyntaxError")

\* eval of one cell of a column: only a text can be evaluated.
EvalCell(c) == IF c.k = "text" THEN Eval(c.t) ELSE Raised("TypeError")

MovieColumnCells(file, c) == {file.rows[i][c] : i \in 1..Len(file.rows)}

IsNumberText(t) == Len(t) = 1 /\ t[1] \in NumericText

\* pd.read_csv's type inference for one column.
MovieInferCell(file, c, f) ==
    IF f.t = <<>> THEN NaN
    ELSE IF \A u \in MovieColumnCells(file, c) : u.t = <<>> \/ IsNumberText(u.t) THEN Num(ParseNum(f.t[1]))
    ELSE Text(f.t)

movie_read_csv(file) ==
    IF ~file.ok THEN Raised("ParserError")
    ELSE [kind |-> "df",
          cols |-> file.cols,
          rows |-> [i \in 1..Len(file.rows) |->
                      [idx |-> i,
                       v |-> [c \in file.cols |-> MovieInferCell(file, c, file.rows[i][c])]]]]

\* json.load, then pd.DataFrame(data): the columns are the keys the records have.
movie_read_json(file) ==
    IF ~file.ok THEN Raised("JSONDecodeError")
    ELSE [kind |-> "df",
          cols |-> IF file.rows = <<>> THEN {} ELSE file.cols,
          rows |-> [i \in 1..Len(file.rows) |-> [idx |-> i, v |-> file.rows[i]]]]

movie_read(file) ==
    IF file.name.ext = ".csv" THEN movie_read_csv(file) ELSE movie_read_json(file)

\* isinstance(df[c].iloc[0], str): iloc[0] raises IndexError on an empty column.
FirstIsStr(d, c) == d.rows[1].v[c].k = "text"

EvalColumn(d, c) ==
    IF \E i \in 1..Len(d.rows) : CellExc(EvalCell(d.rows[i].v[c]))
    THEN LET i == CHOOSE j \in 1..Len(d.rows) :
                     /\ CellExc(EvalCell(d.rows[j].v[c]))
                     /\ \A m \in 1..(j - 1) : ~CellExc(EvalCell(d.rows[m].v[c]))
         IN EvalCell(d.rows[i].v[c])
    ELSE [d EXCEPT !.rows = [i \in 1..Len(d.rows) |->
                               [d.rows[i] EXCEPT !.v = SetCol(d.rows[i].v, c, EvalCell(d.rows[i].v[c]))]]]

\* if c in df.columns and isinstance(df[c].iloc[0], str): df[c] = df[c].apply(eval)
DecodeColumn(d, c) ==
    IF c \notin d.cols THEN d
    ELSE IF d.rows = <<>> THEN Raised("IndexError")
    ELSE IF FirstIsStr(d, c) THEN EvalColumn(d, c)
    ELSE d

DecodeCast(d) == DecodeColumn(d, "castList")
DecodeDirector(d) == DecodeColumn(d, "directorList")
DecodeGenre(d) == DecodeColumn(d, "genreList")

\* The movie loader has no try block: an exception leaves load_data.
movie_load_data(file) ==
    Bind(Bind(Bind(movie_read(file), DecodeCast), DecodeDirector), DecodeGenre)

(***************************************************************************)
(* st.cache_data around load_data.  The cache is a set of [key, value];    *)
(* the key of a call is what the argument hashes to: the name and bytes of *)
(* an uploaded file, the text of a path.  A hit returns a copy of the      *)
(* stored value without running the body; a miss runs the body and stores  *)
(* its return value; an exception leaves the cache as it was.              *)
(***************************************************************************)
PathKey(path) == [path |-> path]
FileKey(file) == [name |-> file.name, bytes |-> <<file.ok, file.cols, file.rows>>]

Hit(c, key) == \E e \in c : e.key = key

CachedCall(c, key, body) ==
    IF Hit(c, key)
    THEN [ret |-> (CHOOSE e \in c : e.key = key).value, cache |-> c, ran |-> FALSE]
    ELSE IF IsExc(body)
    THEN [ret |-> body, cache |-> c, ran |-> TRUE]
    ELSE [ret |-> body, cache |-> c \cup {[key |-> key, value |-> body]}, ran |-> TRUE]

\* Mutant: the cache hands out the stored object itself (as st.cache_resource
\* does), so the caller's change shows in the entry.
CacheAfterMutation_Aliased(c, key, mutated) ==
    {e \in c : e.key # key} \cup {[key |-> key, value |-> mutated]}

\* The cache after the caller changed the frame a call returned: the cache
\* holds its own serialized copy, which the caller's frame does not alias.
CacheAfterMutation(c, key, mutated) == c

\* The history of the load_data calls, by source (0: the path "crime.csv",
\* 1 and 2: the uploaded files): what each call returned, whether it ran
\* the body, and whether the caller changed the returned frame afterwards.
Called(src, r) == [calls EXCEPT ![src] = Append(@, [ret |-> r.ret, ran |-> r.ran, mutated |-> FALSE])]
Mutated(src) == [calls EXCEPT ![src][Len(calls[src])].mutated = TRUE]

(***************************************************************************)
(* The files of a session.                                                 *)
(***************************************************************************)
D1 == "2024-03-01T14:30:00"
D2 == "2024-03-02T23:05:00"

CrimeRow(d, la, lo, s, h) ==
    [OCCURRED_ON_DATE |-> d, Lat |-> la, Long |-> lo, SHOOTING |-> s, HOUR |-> h,
     DISTRICT |-> "B2", OFFENSE_DESCRIPTION |-> "LARCENY"]

CrimeColumns == {"OCCURRED_ON_DATE", "Lat", "Long", "SHOOTING", "HOUR", "DISTRICT", "OFFENSE_DESCRIPTION"}

CrimeFile(stem, ok, cols, rows) ==
    [name |-> [stem |-> stem, ext |-> ".csv"], ok |-> ok, cols |-> cols,
     rows |-> [i \in 1..Len(rows) |-> [c \in cols |-> rows[i][c]]]]

LatTexts == {"", "0", "-1", "42", "abc"}
LongTexts == {"", "-1", "-71"}
ShootingTexts == {"", "Y", "N"}
HourTexts == {"", "14", "25", "abc"}
DateTexts == {D1, D2, "", "not a date"}

RowSeqs(S) == UNION {[1..n -> S] : n \in 0..MaxRows}

\* Files whose rows differ in their coordinates.
CoordRows == {CrimeRow(D1, la, lo, "Y", "14") : la \in LatTexts, lo \in LongTexts}
CoordFiles ==
    {CrimeFile("upload", TRUE, cols, rows) :
        cols \in {CrimeColumns, CrimeColumns \ {"Lat"}, CrimeColumns \ {"Long"}},
        rows \in RowSeqs(CoordRows)}

\* Files whose rows differ in their shooting flag (one row has no location).
ShootingRows ==
    {CrimeRow(D1, "42", "-71", s, "14") : s \in ShootingTexts}
    \cup {CrimeRow(D1, "0", "-71", "Y", "14")}
ShootingFiles ==
    {CrimeFile("upload", TRUE, cols, rows) :
        cols \in {CrimeColumns, CrimeColumns \ {"SHOOTING"}},
        rows \in RowSeqs(ShootingRows)}

\* Files whose rows differ in their hour and date (one row has no location).
HourRows ==
    {CrimeRow(D1, "42", "-71", "Y", h) : h \in HourTexts}
    \cup {CrimeRow(d, "42", "-71", "Y", "7") : d \in DateTexts}
    \cup {CrimeRow(D2, "-1", "-1", "Y", "14")}
HourFiles ==
    {CrimeFile("upload", TRUE, cols, rows) :
        cols \in {CrimeColumns,
                  CrimeColumns \ {"HOUR"},
                  CrimeColumns \ {"OCCURRED_ON_DATE"},
                  CrimeColumns \ {"SHOOTING", "HOUR", "OFFENSE_DESCRIPTION"}},
        rows \in RowSeqs(HourRows)}

\* Bytes that are no delimited text.
BrokenCrimeFile == CrimeFile("upload", FALSE, {}, <<>>)

CrimeFiles == CoordFiles \cup ShootingFiles \cup HourFiles \cup {BrokenCrimeFile}

\* The first file of a session in which the user has a second file at hand
\* or the default file is on disk.
SessionCrimeFiles ==
    {CrimeFile("upload", TRUE, CrimeColumns,
               <<CrimeRow(D1, "42", "-71", "Y", "14"), CrimeRow(D1, "0", "-71", "", "abc")>>),
     CrimeFile("upload", TRUE, CrimeColumns, <<CrimeRow(D1, "42", "-71", "N", "14")>>),
     CrimeFile("upload", TRUE, CrimeColumns \ {"OCCURRED_ON_DATE"}, <<CrimeRow(D1, "42", "-71", "Y", "14")>>),
     BrokenCrimeFile}

OtherCrimeFile ==
    CrimeFile("other", TRUE, CrimeColumns \ {"SHOOTING"},
              <<CrimeRow(D2, "42", "-71", "", "7"), CrimeRow(D2, "-1", "-1", "", "7")>>)

DiskCrimeFile ==
    CrimeFile("crime", TRUE, CrimeColumns \ {"HOUR"},
              <<CrimeRow(D1, "42", "-71", "Y", ""), CrimeRow(D2, "42", "-71", "", "")>>)

CrimePools ==
    {<<f>> : f \in CrimeFiles} \cup {<<f, OtherCrimeFile>> : f \in SessionCrimeFiles}

(***************************************************************************)
(* Crime dashboard: one pass of the script.                                *)
(***************************************************************************)
InitCrime ==
    /\ app = "crime"
    /\ pool \in CrimePools
    /\ diskExists \in (IF Len(pool) = 2 THEN BOOLEAN ELSE {FALSE})
    /\ uploaded = 0
    /\ cache = {}
    /\ df = Unset
    /\ pc = "idle"
    /\ passes = 0
    /\ calls = [s \in 0..2 |-> <<>>]

\* Mutant: an uploaded file whose load yields None is replaced by crime.csv
\* (if df is None and os.path.exists("crime.csv")).
CrimeCall_FallbackOnNull ==
    IF uploaded # 0 /\ (crime_load_data(pool[uploaded]) # None \/ ~diskExists)
    THEN CachedCall(cache, FileKey(pool[uploaded]), crime_load_data(pool[uploaded]))
    ELSE IF diskExists
    THEN CachedCall(cache, PathKey("crime.csv"), crime_load_data(DiskCrimeFile))
    ELSE [ret |-> None, cache |-> cache, ran |-> FALSE]

\* The load_data call of lines 95-98, or no call at all.
CrimeCall ==
    IF uploaded # 0
    THEN CachedCall(cache, FileKey(pool[uploaded]), crime_load_data(pool[uploaded]))
    ELSE IF diskExists
    THEN CachedCall(cache, PathKey("crime.csv"), crime_load_data(DiskCrimeFile))
    ELSE [ret |-> None, cache |-> cache, ran |-> FALSE]

\* df = None; if uploaded_file: ... elif os.path.exists("crime.csv"): ...
CrimeLoad ==
    /\ app = "crime" /\ pc = "load"
    /\ df' = IF IsExc(CrimeCall.ret) THEN Unset ELSE CrimeCall.ret
    /\ cache' = CrimeCall.cache
    /\ calls' = IF uploaded # 0 THEN Called(uploaded, CrimeCall)
                ELSE IF diskExists THEN Called(0, CrimeCall)
                ELSE calls
    /\ pc' = IF IsExc(CrimeCall.ret) THEN "crashed" ELSE "check"
    /\ UNCHANGED <<app, pool, diskExists, uploaded, passes>>

\* if df is None: st.info(...); st.stop()
CrimeCheck ==
    /\ app = "crime" /\ pc = "check"
    /\ pc' = IF df = None THEN "halted" ELSE "dashboard"
    /\ UNCHANGED <<app, pool, diskExists, uploaded, cache, df, passes, calls>>

\* The rest of the script (filters, KPIs, map and trends, charts) reads df
\* and builds its own frames from it.
CrimeDashboard ==
    /\ app = "crime" /\ pc = "dashboard"
    /\ pc' = "done"
    /\ UNCHANGED <<app, pool, diskExists, uploaded, cache, df, passes, calls>>

\* A user interaction (an upload, a removed upload, a widget) reruns the
\* script from the top; the script's names start unbound.
Rerun ==
    /\ pc \notin {"load", "check"}
    /\ passes < MaxPasses
    /\ passes' = passes + 1
    /\ uploaded' \in 0..Len(pool)
    /\ df' = Unset
    /\ pc' = "load"
    /\ UNCHANGED <<app, pool, diskExists, cache, calls>>

(***************************************************************************)
(* Movie explorer: the files of a session and one pass of the script.      *)
(***************************************************************************)
MovieRow(y, c, d, g) == [year |-> y, castList |-> c, directorList |-> d, genreList |-> g]

MovieColumns == {"year", "castList", "directorList", "genreList"}

MovieFile(stem, ext, ok, cols, rows) ==
    [name |-> [stem |-> stem, ext |-> ext], ok |-> ok, cols |-> cols,
     rows |-> [i \in 1..Len(rows) |-> [c \in cols |-> rows[i][c]]]]

TextEmptyList == <<"[", "]">>
TextA == <<"[", "'A'", "]">>
TextAB == <<"[", "'A'", ",", "'B'", "]">>
TextUnbalanced == <<"[", "'A'", ",", "'B'">>

\* The fields a list-valued column of a .csv file may hold.
ListTexts == {<<>>, TextEmptyList, TextA, TextAB, TextUnbalanced, <<"Tom">>, <<"5">>, <<"'A'">>}

\* The values a list-valued key of a JSON record may hold.
JsonValues == {NaN, List(<<>>), List(<<Str("A")>>), List(<<Str("A"), Str("B")>>), Text(TextAB), Text(TextUnbalanced)}

CsvRow(c, d, g) == MovieRow(Field(<<"1994">>), Field(c), Field(d), Field(g))
CsvRows ==
    {CsvRow(c, TextA, TextA) : c \in ListTexts}
    \cup {CsvRow(TextA, d, TextA) : d \in {<<>>, TextEmptyList, TextUnbalanced}}
    \cup {CsvRow(TextAB, TextA, g) : g \in {<<>>, TextEmptyList, TextUnbalanced}}
    \cup {MovieRow(Field(<<"2008">>), Field(TextAB), Field(TextA), Field(TextEmptyList))}

JsonRow(c, d, g) == MovieRow(Num(1994), c, d, g)
JsonRows ==
    {JsonRow(c, List(<<Str("A")>>), List(<<Str("A")>>)) : c \in JsonValues}
    \cup {JsonRow(List(<<Str("A")>>), d, List(<<Str("A")>>)) : d \in {NaN, Text(TextAB)}}
    \cup {JsonRow(List(<<Str("A")>>), List(<<Str("A")>>), g) : g \in {NaN, Text(TextAB)}}

MovieColumnChoices == {MovieColumns, MovieColumns \ {"castList"}, MovieColumns \ {"directorList", "genreList"}}

MovieFiles ==
    {MovieFile("upload", ".csv", TRUE, cols, rows) : cols \in MovieColumnChoices, rows \in RowSeqs(CsvRows)}
    \cup {MovieFile("upload", ".json", TRUE, cols, rows) : cols \in MovieColumnChoices, rows \in RowSeqs(JsonRows)}
    \cup {MovieFile("upload", ".csv", FALSE, {}, <<>>), MovieFile("upload", ".json", FALSE, {}, <<>>)}

OtherMovieFile ==
    MovieFile("other", ".json", TRUE, MovieColumns,
              <<MovieRow(Num(2008), List(<<Str("B")>>), List(<<>>), List(<<Str("A")>>))>>)

\* A set of movie records and its two files: the delimited text writes a
\* number as its digits and a list as its literal, the JSON array holds the
\* values themselves.
NumText(n) == CASE n = 1994 -> "1994" [] n = 2008 -> "2008"
Quote(x) == CASE x = "A" -> "'A'" [] x = "B" -> "'B'"

RECURSIVE ItemTokens(_)
ItemTokens(l) ==
    IF l = <<>> THEN <<>>
    ELSE IF Len(l) = 1 THEN <<Quote(l[1])>>
    ELSE <<Quote(l[1]), ",">> \o ItemTokens(Tail(l))

ListText(l) == <<"[">> \o ItemTokens(l) \o <<"]">>
ListValue(l) == List([j \in 1..Len(l) |-> Str(l[j])])

Lists == {<<>>, <<"A">>, <<"A", "B">>}

MovieRecords ==
    {MovieRow(1994, c, <<"A">>, <<"A">>) : c \in Lists}
    \cup {MovieRow(2008, <<"A", "B">>, <<>>, <<"A">>), MovieRow(2008, <<"A">>, <<"A">>, <<"A", "B">>)}

CsvOf(cols, recs) ==
    MovieFile("movies", ".csv", TRUE, cols,
              [i \in 1..Len(recs) |->
                 MovieRow(Field(<<NumText(recs[i].year)>>), Field(ListText(recs[i].castList)),
                          Field(ListText(recs[i].directorList)), Field(ListText(recs[i].genreList)))])

JsonOf(cols, recs) ==
    MovieFile("movies", ".json", TRUE, cols,
              [i \in 1..Len(recs) |->
                 MovieRow(Num(recs[i].year), ListValue(recs[i].castList),
                          ListValue(recs[i].directorList), ListValue(recs[i].genreList))])

EquivalentPairs ==
    {<<CsvOf(cols, recs), JsonOf(cols, recs)>> : cols \in MovieColumnChoices, recs \in RowSeqs(MovieRecords)}

\* A file that already has a column named decade.
DecadeMovieFile ==
    [name |-> [stem |-> "upload", ext |-> ".csv"], ok |-> TRUE,
     cols |-> MovieColumns \cup {"decade"},
     rows |-> <<[year |-> Field(<<"1994">>), castList |-> Field(TextA), directorList |-> Field(TextA),
                 genreList |-> Field(TextAB), decade |-> Field(<<"2008">>)]>>]

\* Sessions in which the user has a second file at hand.
SessionMoviePools ==
    {<<MovieFile("upload", ".csv", TRUE, MovieColumns, <<CsvRow(TextAB, TextA, TextEmptyList)>>), OtherMovieFile>>,
     <<MovieFile("upload", ".csv", TRUE, MovieColumns, <<CsvRow(TextUnbalanced, TextA, TextA)>>), OtherMovieFile>>}

InitMovie ==
    /\ app = "movie"
    /\ pool \in {<<f>> : f \in MovieFiles \cup {DecadeMovieFile}} \cup SessionMoviePools \cup EquivalentPairs
    /\ diskExists = FALSE
    /\ uploaded = 0
    /\ cache = {}
    /\ df = Unset
    /\ pc = "idle"
    /\ passes = 0
    /\ calls = [s \in 0..2 |-> <<>>]

MovieCall == CachedCall(cache, FileKey(pool[uploaded]), movie_load_data(pool[uploaded]))

\* if uploaded_file is not None: df = load_data(uploaded_file) ... else: welcome
MovieLoad ==
    /\ app = "movie" /\ pc = "load"
    /\ IF uploaded = 0
       THEN /\ pc' = "welcome"
            /\ UNCHANGED <<df, cache, calls>>
       ELSE /\ df' = IF IsExc(MovieCall.ret) THEN Unset ELSE MovieCall.ret
            /\ cache' = MovieCall.cache
            /\ calls' = Called(uploaded, MovieCall)
            /\ pc' = IF IsExc(MovieCall.ret) THEN "crashed" ELSE "overview"
    /\ UNCHANGED <<app, pool, diskExists, uploaded, passes>>

\* The overview metrics and the first six tabs read df; a column they name
\* and the frame lacks raises KeyError.
MovieOverview ==
    /\ app = "movie" /\ pc = "overview"
    /\ pc' = IF MovieColumns \subseteq df.cols THEN "timeline" ELSE "crashed"
    /\ UNCHANGED <<app, pool, diskExists, uploaded, cache, df, passes, calls>>

\* Mutant: the year rounded down to the century.
DecadeOf_Century(v) ==
    SetCol(v, "decade", IF v["year"].k = "num" THEN Num((v["year"].n \div 100) * 100) ELSE NaN)

\* (year // 10) * 10 of one row.
DecadeOf(v) ==
    SetCol(v, "decade", IF v["year"].k = "num" THEN Num((v["year"].n \div 10) * 10) ELSE NaN)

AddDecade(d) ==
    [d EXCEPT !.cols = d.cols \cup {"decade"},
              !.rows = [i \in 1..Len(d.rows) |-> [d.rows[i] EXCEPT !.v = DecadeOf(d.rows[i].v)]]]

\* Timeline Explorer: df["decade"] = (df["year"] // 10) * 10
MovieTimeline ==
    /\ app = "movie" /\ pc = "timeline"
    /\ df' = AddDecade(df)
    /\ cache' = CacheAfterMutation(cache, FileKey(pool[uploaded]), df')
    /\ calls' = Mutated(uploaded)
    /\ pc' = "recommender"
    /\ UNCHANGED <<app, pool, diskExists, uploaded, passes>>

\* Movie Recommender: filters into filtered_df, df is read only.
MovieRecommender ==
    /\ app = "movie" /\ pc = "recommender"
    /\ pc' = "done"
    /\ UNCHANGED <<app, pool, diskExists, uploaded, cache, df, passes, calls>>

Init == InitCrime \/ InitMovie

Next ==
    \/ Rerun
    \/ CrimeLoad
    \/ CrimeCheck
    \/ CrimeDashboard
    \/ MovieLoad
    \/ MovieOverview
    \/ MovieTimeline
    \/ MovieRecommender

Spec == Init /\ [][Next]_vars

\* The sessions of one dashboard alone.
NextCrime == Rerun \/ CrimeLoad \/ CrimeCheck \/ CrimeDashboard
SpecCrime == InitCrime /\ [][NextCrime]_vars

NextMovie == Rerun \/ MovieLoad \/ MovieOverview \/ MovieTimeline \/ MovieRecommender
SpecMovie == InitMovie /\ [][NextMovie]_vars

(***************************************************************************)
(* What the claims speak about.                                            *)
(***************************************************************************)
\* The pass has made its load_data call (or skipped it) and df is bound.
CrimeLoaded == app = "crime" /\ pc \in {"check", "dashboard", "done", "halted"}

\* The file the pass loads from: the upload, else the default file on disk.
CrimeSource == IF uploaded # 0 THEN pool[uploaded] ELSE DiskCrimeFile
CrimeHasSource == uploaded # 0 \/ diskExists

\* The fields of the input record a retained row came from.
InputOf(r) == CrimeSource.rows[r.idx]

\* The input conditions under which a step of the loader fails.
NoDateColumn(f) == "OCCURRED_ON_DATE" \notin f.cols
NoCoordinateColumn(f) == ~({"Lat", "Long"} \subseteq f.cols)
RepeatedNoCategory(f) == "SHOOTING" \in f.cols /\ \E i \in 1..Len(f.rows) : f.rows[i]["SHOOTING"] = "N"
NoHourSource(f) ==
    /\ "HOUR" \notin f.cols
    /\ \E i \in 1..Len(f.rows) : f.rows[i]["OCCURRED_ON_DATE"] \notin {D1, D2}
CrimeLoadFails(f) ==
    \/ ~f.ok
    \/ NoDateColumn(f)
    \/ NoCoordinateColumn(f)
    \/ RepeatedNoCategory(f)
    \/ NoHourSource(f)

\* C1: load_data never raises; a file on which parsing or a cleaning step
\* fails (for example one without the OCCURRED_ON_DATE column) gives the
\* null result; and the pass reaches the dashboard sections only with a
\* frame, a null dataset ending it at the upload prompt.
C1_FailSoft ==
    app = "crime" =>
        /\ pc # "crashed"
        /\ (CrimeLoaded /\ CrimeHasSource /\ CrimeLoadFails(CrimeSource) => df = None)
        /\ (pc \in {"dashboard", "done"} => IsFrame(df))
        /\ (pc = "halted" => df = None)

C1_Witness ==
    /\ app = "crime" /\ pc = "halted" /\ uploaded # 0
    /\ CrimeSource.ok /\ NoDateColumn(CrimeSource)
    /\ df = None

OtherwiseLoadable(f) ==
    f.ok /\ ~NoDateColumn(f) /\ ~NoCoordinateColumn(f) /\ ~NoHourSource(f)

\* C4: a file with a SHOOTING column of "Y", "N" and missing values, "N"
\* among them or not, yields a dataset, and each retained row's Is_Shooting
\* is 1 when the row's flag is "Y" and 0 when it is "N" or missing.
C4_Claim ==
    CrimeLoaded /\ uploaded # 0 /\ OtherwiseLoadable(CrimeSource) /\ "SHOOTING" \in CrimeSource.cols =>
        /\ IsFrame(df)
        /\ \A i \in 1..Len(df.rows) :
              df.rows[i].v["Is_Shooting"] = Num(IF InputOf(df.rows[i])["SHOOTING"] = "Y" THEN 1 ELSE 0)

\* C5: a file without a SHOOTING column that is loadable otherwise yields a
\* dataset whose SHOOTING is "N" and whose Is_Shooting is 0 on every row.
C5_NoShootingColumn ==
    CrimeLoaded /\ CrimeHasSource /\ OtherwiseLoadable(CrimeSource) /\ "SHOOTING" \notin CrimeSource.cols =>
        /\ IsFrame(df)
        /\ \A i \in 1..Len(df.rows) :
              /\ df.rows[i].v["SHOOTING"] = Str("N")
              /\ df.rows[i].v["Is_Shooting"] = Num(0)

C5_Witness ==
    /\ CrimeLoaded /\ uploaded # 0 /\ "SHOOTING" \notin CrimeSource.cols
    /\ IsFrame(df) /\ Len(df.rows) = MaxRows

\* The hour component of the timestamps the files hold.
HourComponent(s) == CASE s = D1 -> 14 [] s = D2 -> 23

\* C6: with a HOUR column each retained row's HOUR is that value as an
\* integer, 0 for a missing or unparseable one; without a HOUR column it is
\* the hour component of the row's OCCURRED_ON_DATE.
C6_HourDerivation ==
    CrimeLoaded /\ IsFrame(df) /\ CrimeHasSource =>
        \A i \in 1..Len(df.rows) :
            IF "HOUR" \in CrimeSource.cols
            THEN df.rows[i].v["HOUR"] =
                    Num(IF InputOf(df.rows[i])["HOUR"] \in NumericText
                        THEN ParseNum(InputOf(df.rows[i])["HOUR"]) ELSE 0)
            ELSE df.rows[i].v["HOUR"] = Num(HourComponent(InputOf(df.rows[i])["OCCURRED_ON_DATE"]))

\* A file without a HOUR column gave a row stamped 2024-03-01T14:30:00 the
\* hour 14 and a row stamped 2024-03-02T23:05:00 the hour 23.
C6_Witness ==
    /\ CrimeLoaded /\ IsFrame(df) /\ uploaded # 0
    /\ "HOUR" \notin CrimeSource.cols
    /\ \E i \in 1..Len(df.rows) :
          /\ InputOf(df.rows[i])["OCCURRED_ON_DATE"] = D1
          /\ df.rows[i].v["HOUR"] = Num(14)
    /\ \E j \in 1..Len(df.rows) :
          /\ InputOf(df.rows[j])["OCCURRED_ON_DATE"] = D2
          /\ df.rows[j].v["HOUR"] = Num(23)

\* A file with a HOUR column gave an unparseable hour 0 and kept the hour 25.
C6_WitnessCoerced ==
    /\ CrimeLoaded /\ IsFrame(df) /\ uploaded # 0
    /\ "HOUR" \in CrimeSource.cols
    /\ \E i \in 1..Len(df.rows) :
          InputOf(df.rows[i])["HOUR"] = "abc" /\ df.rows[i].v["HOUR"] = Num(0)
    /\ \E j \in 1..Len(df.rows) :
          InputOf(df.rows[j])["HOUR"] = "25" /\ df.rows[j].v["HOUR"] = Num(25)

(***************************************************************************)
(* Movie loader.                                                           *)
(***************************************************************************)
ListColumns == {"castList", "directorList", "genreList"}

\* t renders a list literally: brackets around quoted strings separated by
\* commas.
IsLiteralSequence(t) ==
    /\ Len(t) >= 2 /\ (Len(t) = 2 \/ Len(t) % 2 = 1)
    /\ t[1] = "[" /\ t[Len(t)] = "]"
    /\ \A i \in 2..(Len(t) - 1) : IF i % 2 = 0 THEN t[i] \in Quoted ELSE t[i] = ","

\* The file holds a list at row i of column c: as its literal text, or (in a
\* JSON file) as an array.
HoldsList(f, i, c) ==
    LET x == f.rows[i][c]
    IN \/ x.k = "list"
       \/ x.k \in {"field", "text"} /\ IsLiteralSequence(x.t)

\* The file holds at row i of column c a text that renders no list.
HoldsMalformedText(f, i, c) ==
    LET x == f.rows[i][c]
    IN x.k \in {"field", "text"} /\ x.t # <<>> /\ ~IsLiteralSequence(x.t)

MovieSources == 1..Len(pool)

\* C7: in every dataset load_data returns, every value that the file holds
\* as a list in a list-valued column is a true sequence, never its text,
\* whatever the first row of the column holds.
C7_Claim ==
    app = "movie" =>
        \A s \in MovieSources : \A j \in 1..Len(calls[s]) :
            IsFrame(calls[s][j].ret) =>
                \A c \in ListColumns \cap calls[s][j].ret.cols :
                    \A i \in 1..Len(calls[s][j].ret.rows) :
                        HoldsList(pool[s], calls[s][j].ret.rows[i].idx, c)
                            => calls[s][j].ret.rows[i].v[c].k = "list"

\* C8: a file that holds, in some row of a list-valued column, a text that
\* renders no list makes load_data fail; no dataset is returned for it.
C8_Claim ==
    app = "movie" =>
        \A s \in MovieSources : \A j \in 1..Len(calls[s]) :
            (/\ pool[s].ok
             /\ \E c \in ListColumns \cap pool[s].cols :
                   \E i \in 1..Len(pool[s].rows) : HoldsMalformedText(pool[s], i, c))
            => IsExc(calls[s][j].ret)

\* C9: the delimited-text file and the JSON file of the same records load
\* to the same dataset: the same columns and the same rows in the same order.
C9_Claim ==
    app = "movie" /\ pool \in EquivalentPairs /\ calls[1] # <<>> /\ calls[2] # <<>> =>
        /\ IsFrame(calls[1][1].ret) /\ IsFrame(calls[2][1].ret)
        /\ calls[1][1].ret.cols = calls[2][1].ret.cols
        /\ calls[1][1].ret.rows = calls[2][1].ret.rows

(***************************************************************************)
(* The cache of both loaders.                                              *)
(***************************************************************************)
\* What load_data computes for the source s of the session.
LoadResult(s) ==
    IF app = "crime"
    THEN crime_load_data(IF s = 0 THEN DiskCrimeFile ELSE pool[s])
    ELSE movie_load_data(pool[s])

\* C10: every call for a source returns what the first call for it returned,
\* whatever the pass did to that frame in between; once a dataset was
\* computed for it the body is not run again; and what a call returns is the
\* dataset of its own file.
C10_CacheConsistent ==
    \A s \in 0..2 :
        /\ calls[s] # <<>> => calls[s][1].ret = LoadResult(s)
        /\ \A j \in 1..Len(calls[s]) :
            /\ calls[s][j].ret = calls[s][1].ret
            /\ (j > 1 /\ ~IsExc(calls[s][1].ret) => ~calls[s][j].ran)

\* The movie pass added the decade column to the frame of the first call,
\* and the second call for the same file was answered from the cache.
C10_Witness ==
    /\ app = "movie"
    /\ Len(calls[1]) = 2
    /\ calls[1][1].mutated
    /\ ~calls[1][2].ran
    /\ IsFrame(calls[1][2].ret)
    /\ Len(calls[1][2].ret.rows) >= 1

(***************************************************************************)
(* Crime dashboard: source selection.                                      *)
(***************************************************************************)
\* The step of a crime pass from the top of the script to the test of df.
CrimeLoadStep == app = "crime" /\ pc = "load" /\ pc' # "load"

\* One more call of load_data for source s, and none for any other source.
OnlyCalled(s) ==
    /\ Len(calls'[s]) = Len(calls[s]) + 1
    /\ \A o \in (0..2) \ {s} : calls'[o] = calls[o]

\* C11: on every pass an uploaded file is the only source loaded and df is
\* its result, null or not; crime.csv is loaded exactly when nothing is
\* uploaded and it exists; with neither, nothing is loaded and df is None;
\* and a pass whose df is None halts with the prompt.
C11_SourceSelection ==
    [][/\ CrimeLoadStep /\ uploaded # 0 =>
            OnlyCalled(uploaded) /\ df' = crime_load_data(pool[uploaded])
       /\ CrimeLoadStep /\ uploaded = 0 /\ diskExists =>
            OnlyCalled(0) /\ df' = crime_load_data(DiskCrimeFile)
       /\ CrimeLoadStep /\ uploaded = 0 /\ ~diskExists =>
            calls' = calls /\ df' = None
       /\ app = "crime" /\ pc = "check" /\ pc' # "check" =>
            pc' = (IF df = None THEN "halted" ELSE "dashboard")]_vars

\* An uploaded file loaded to None while crime.csv exists: the pass halted
\* and crime.csv was never loaded.
C11_Witness ==
    /\ app = "crime" /\ pc = "halted"
    /\ uploaded # 0 /\ diskExists
    /\ calls[uploaded] # <<>> /\ calls[uploaded][1].ret = None
    /\ calls[0] = <<>>

\* A pass without an upload loaded crime.csv and reached the dashboard.
C11_WitnessDefault ==
    /\ app = "crime" /\ pc = "dashboard"
    /\ uploaded = 0 /\ diskExists
    /\ calls[0] # <<>> /\ IsFrame(df)

(***************************************************************************)
(* Crime loader: the range of HOUR.                                        *)
(***************************************************************************)
\* C12: in every dataset load_data returns, the HOUR of every row is an
\* integer from 0 to 23, whether it came from a HOUR column of the file or
\* from the timestamp.
C12_Claim ==
    CrimeLoaded /\ IsFrame(df) =>
        \A i \in 1..Len(df.rows) :
            /\ df.rows[i].v["HOUR"].k = "num"
            /\ df.rows[i].v["HOUR"].n \in 0..23

(***************************************************************************)
(* Movie explorer: what the script does to the loaded dataset.             *)
(***************************************************************************)
\* A pass of the movie script holds a dataset.
MovieLoaded ==
    /\ app = "movie" /\ uploaded # 0 /\ IsFrame(df)
    /\ pc \in {"overview", "timeline", "recommender", "done", "crashed"}

\* The dataset load_data returned to the pass.
Returned == calls[uploaded][Len(calls[uploaded])].ret

\* The timeline analysis of the pass is over.
PastTimeline == pc \in {"recommender", "done"}

\* The rows of df are the rows of the returned dataset, in order, with the
\* same values in the columns of C.
SameRowsOn(C) ==
    /\ Len(df.rows) = Len(Returned.rows)
    /\ \A i \in 1..Len(df.rows) :
          /\ df.rows[i].idx = Returned.rows[i].idx
          /\ \A c \in C : df.rows[i].v[c] = Returned.rows[i].v[c]

\* Every row's decade is its year rounded down to a multiple of 10.
DecadeDerived ==
    \A i \in 1..Len(df.rows) :
        df.rows[i].v["year"].k = "num" =>
            /\ df.rows[i].v["decade"].k = "num"
            /\ df.rows[i].v["decade"].n % 10 = 0
            /\ df.rows[i].v["decade"].n <= df.rows[i].v["year"].n
            /\ df.rows[i].v["year"].n < df.rows[i].v["decade"].n + 10

\* C13: through the pass the dataset keeps its rows and the values of every
\* column load_data returned; the only change is the column decade the
\* timeline analysis adds, the year rounded down to a multiple of 10.
C13_Original ==
    MovieLoaded =>
        /\ SameRowsOn(Returned.cols)
        /\ df.cols = (IF PastTimeline THEN Returned.cols \cup {"decade"} ELSE Returned.cols)
        /\ PastTimeline => DecadeDerived

\* C13 (amended): through the pass the dataset keeps its rows and the values
\* of every column other than decade; after the timeline analysis the column
\* decade, added or overwritten, holds on every row the year rounded down to
\* a multiple of 10.
C13_Amended ==
    MovieLoaded =>
        /\ SameRowsOn(Returned.cols \ {"decade"})
        /\ ~PastTimeline => df = Returned
        /\ PastTimeline =>
              /\ df.cols = Returned.cols \cup {"decade"}
              /\ "decade" \notin Returned.cols => SameRowsOn(Returned.cols)
              /\ DecadeDerived

\* The recommender ran on a dataset of two rows to which the timeline
\* analysis had added the decades 1990 and 2000.
C13_Witness ==
    /\ MovieLoaded /\ pc = "done"
    /\ "decade" \notin Returned.cols
    /\ \E i \in 1..Len(df.rows) :
          df.rows[i].v["year"] = Num(1994) /\ df.rows[i].v["decade"] = Num(1990)
    /\ \E j \in 1..Len(df.rows) :
          df.rows[j].v["year"] = Num(2008) /\ df.rows[j].v["decade"] = Num(2000)

(***************************************************************************)
(* Crime loader: which rows are retained.                                  *)
(***************************************************************************)
\* Row i of the file has both coordinates and its latitude is neither 0
\* nor -1.
HasValidPosition(f, i) ==
    /\ f.rows[i]["Lat"] # "" /\ f.rows[i]["Long"] # ""
    /\ f.rows[i]["Lat"] \notin {"0", "-1"}

\* Every latitude of the file is a number or missing, so that the column is
\* read as numbers; one cell of other text makes it a column of texts.
LatReadAsNumbers(f) == \A i \in 1..Len(f.rows) : f.rows[i]["Lat"] \in NumericText \cup {""}

\* Row i of the file has both coordinates and its latitude, as read, is
\* neither the number 0 nor the number -1.
HasValidPositionAsRead(f, i) ==
    /\ f.rows[i]["Lat"] # "" /\ f.rows[i]["Long"] # ""
    /\ ~(LatReadAsNumbers(f) /\ f.rows[i]["Lat"] \in {"0", "-1"})

\* What the steps before the coordinate drop compute for an input row.
ShootingFor(f, i) ==
    IF "SHOOTING" \in f.cols /\ f.rows[i]["SHOOTING"] # "" THEN Str(f.rows[i]["SHOOTING"]) ELSE Str("N")
IndicatorFor(f, i) == Num(IF ShootingFor(f, i) = Str("Y") THEN 1 ELSE 0)
HourFor(f, i) ==
    IF "HOUR" \in f.cols
    THEN Num(IF f.rows[i]["HOUR"] \in NumericText THEN ParseNum(f.rows[i]["HOUR"]) ELSE 0)
    ELSE Num(HourComponent(f.rows[i]["OCCURRED_ON_DATE"]))

\* The retained rows are input rows, each once and in input order.
InInputOrder == \A k, l \in 1..Len(df.rows) : k < l => df.rows[k].idx < df.rows[l].idx

\* SHOOTING, Is_Shooting and HOUR of a retained row are the values computed
\* for its own input row.
DerivedForOwnRow ==
    \A k \in 1..Len(df.rows) :
        /\ df.rows[k].v["SHOOTING"] = ShootingFor(CrimeSource, df.rows[k].idx)
        /\ df.rows[k].v["Is_Shooting"] = IndicatorFor(CrimeSource, df.rows[k].idx)
        /\ df.rows[k].v["HOUR"] = HourFor(CrimeSource, df.rows[k].idx)

====
